---- MODULE Spec2Model ----
(***************************************************************************)
(* promptbuilder (src/main.go): a configuration file is parsed, validated, *)
(* the include entries are walked under the exclusion rules, and the       *)
(* selected text files are concatenated into one Markdown document.        *)
(*                                                                         *)
(* Text is modelled as sequences of one-character strings, file contents   *)
(* and the output document as sequences of bytes (0..255).                 *)
(***************************************************************************)
EXTENDS Integers, Sequences, FiniteSets, TLC

(***************************************************************************)
(* Characters and strings (Go's strings / bytes packages)                  *)
(***************************************************************************)

\* The printable ASCII characters in code order, 0x20 .. 0x7E ("bq" stands
\* for the backquote, 0x60).
Printable ==
    <<" ", "!", "\"", "#", "$", "%", "&", "'", "(", ")", "*", "+", ",", "-", ".", "/",
      "0", "1", "2", "3", "4", "5", "6", "7", "8", "9", ":", ";", "<", "=", ">", "?",
      "@", "A", "B", "C", "D", "E", "F", "G", "H", "I", "J", "K", "L", "M", "N", "O",
      "P", "Q", "R", "S", "T", "U", "V", "W", "X", "Y", "Z", "[", "\\", "]", "^", "_",
      "bq", "a", "b", "c", "d", "e", "f", "g", "h", "i", "j", "k", "l", "m", "n", "o",
      "p", "q", "r", "s", "t", "u", "v", "w", "x", "y", "z", "{", "|", "}", "~">>

\* The code point of a character. A text is a sequence of characters: the
\* printable ones, the control characters "\t", "\n", "vt" (0x0B), "\f",
\* "\r", and the two white space characters beyond ASCII that Go's
\* unicode.IsSpace knows in Latin-1, "nel" (U+0085) and "nbsp" (U+00A0).
Code(c) ==
    CASE c = "\t" -> 9
      [] c = "\n" -> 10
      [] c = "vt" -> 11
      [] c = "\f" -> 12
      [] c = "\r" -> 13
      [] c = "nel" -> 133
      [] c = "nbsp" -> 160
      [] OTHER -> 31 + (CHOOSE i \in 1..Len(Printable) : Printable[i] = c)

\* A character stored as two bytes.
Wide(c) == c \in {"nel", "nbsp"}

\* The bytes a character is stored as (UTF-8).
Utf8(c) ==
    IF Wide(c) THEN <<192 + (Code(c) \div 64), 128 + (Code(c) % 64)>> ELSE <<Code(c)>>

\* []byte(s)
RECURSIVE Bytes(_)
Bytes(s) == IF s = <<>> THEN <<>> ELSE Utf8(Head(s)) \o Bytes(Tail(s))

\* len(s), in bytes
ByteLen(s) == Len(s) + Cardinality({i \in 1..Len(s) : Wide(s[i])})

MinOf(S) == CHOOSE x \in S : \A y \in S : x <= y
MaxOf(S) == CHOOSE x \in S : \A y \in S : y <= x
Smaller(m, n) == IF m < n THEN m ELSE n

\* Go's string comparison a < b: bytewise lexical order (sort.Strings), which
\* for UTF-8 is the order of the code points; d is the set of positions at
\* which a and b differ.
LessAt(a, b, d) ==
    IF d = {} THEN Len(a) < Len(b) ELSE Code(a[MinOf(d)]) < Code(b[MinOf(d)])

StrLess(a, b) == LessAt(a, b, {i \in 1..Smaller(Len(a), Len(b)) : a[i] # b[i]})

\* strings.HasPrefix
HasPrefix(s, p) == Len(s) >= Len(p) /\ SubSeq(s, 1, Len(p)) = p

\* unicode.IsSpace: '\t', '\n', '\v', '\f', '\r', ' ', U+0085, U+00A0
IsSpace(c) == c \in {"\t", "\n", "vt", "\f", "\r", " ", "nel", "nbsp"}

\* strings.TrimSpace; keep is the set of positions that hold no space.
TrimTo(s, keep) == IF keep = {} THEN <<>> ELSE SubSeq(s, MinOf(keep), MaxOf(keep))

TrimSpace(s) == TrimTo(s, {i \in 1..Len(s) : ~IsSpace(s[i])})

\* strings.ToLower: of the characters of a text only 'A' .. 'Z' change.
LowerChar(c) ==
    IF Code(c) >= 65 /\ Code(c) <= 90 THEN Printable[Code(c) + 32 - 31] ELSE c

ToLower(s) == [i \in 1..Len(s) |-> LowerChar(s[i])]

\* strings.Join(elems, sep)
RECURSIVE StrJoin(_, _)
StrJoin(elems, sep) ==
    IF elems = <<>> THEN <<>>
    ELSE IF Len(elems) = 1 THEN elems[1]
    ELSE elems[1] \o sep \o StrJoin(Tail(elems), sep)

\* The k-th smallest member of a set of positions.
Nth(at, k) == CHOOSE i \in at : Cardinality({j \in at : j < i}) = k - 1

\* The k-th piece of s between the separators at the positions at.
Piece(s, at, k) ==
    SubSeq(s,
           IF k = 1 THEN 1 ELSE Nth(at, k - 1) + 1,
           IF k = Cardinality(at) + 1 THEN Len(s) ELSE Nth(at, k) - 1)

PiecesAt(s, at) == [k \in 1..Cardinality(at) + 1 |-> Piece(s, at, k)]

\* strings.Split(s, sep) for a one-character separator: the pieces between
\* the separators, empty pieces kept.
StrSplit(s, sep) == PiecesAt(s, {i \in 1..Len(s) : s[i] = sep})

(***************************************************************************)
(* Paths (Go's path/filepath on a Unix build)                              *)
(***************************************************************************)

Separator == "/"
Dot == <<".">>
DotDot == <<".", ".">>

\* filepath.IsAbs
IsAbs(p) == Len(p) > 0 /\ p[1] = Separator

NotEmpty(e) == e # <<>>

\* The elements of a path: its non-empty pieces between separators.
Elements(p) == SelectSeq(StrSplit(p, Separator), NotEmpty)

\* The elements filepath.Clean keeps while it scans a path: "." is dropped,
\* ".." removes the element before it, is dropped at the root, and is kept
\* at the start of a relative path.
RECURSIVE CleanStack(_, _, _)
CleanStack(elems, rooted, stack) ==
    IF elems = <<>> THEN stack
    ELSE IF Head(elems) = Dot THEN CleanStack(Tail(elems), rooted, stack)
    ELSE IF Head(elems) = DotDot
    THEN IF stack # <<>> /\ stack[Len(stack)] # DotDot
         THEN CleanStack(Tail(elems), rooted, SubSeq(stack, 1, Len(stack) - 1))
         ELSE IF rooted THEN CleanStack(Tail(elems), rooted, stack)
         ELSE CleanStack(Tail(elems), rooted, Append(stack, DotDot))
    ELSE CleanStack(Tail(elems), rooted, Append(stack, Head(elems)))

CleanText(rooted, body) ==
    IF rooted THEN <<Separator>> \o body
    ELSE IF body = <<>> THEN Dot ELSE body

\* filepath.Clean
Clean(p) ==
    CleanText(IsAbs(p), StrJoin(CleanStack(Elements(p), IsAbs(p), <<>>), <<Separator>>))

\* filepath.Join(a, b): the non-empty arguments joined by the separator and
\* cleaned; the empty string when both are empty.
Join(a, b) ==
    IF a = <<>> /\ b = <<>> THEN <<>>
    ELSE IF a = <<>> THEN Clean(b)
    ELSE IF b = <<>> THEN Clean(a)
    ELSE Clean(a \o <<Separator>> \o b)

\* The text after the last separator of q.
AfterSlash(q, sl) == IF sl = {} THEN q ELSE SubSeq(q, MaxOf(sl) + 1, Len(q))

LastElement(q) == AfterSlash(q, {i \in 1..Len(q) : q[i] = Separator})

BaseOf(p, keep) ==
    IF keep = {} THEN <<Separator>> ELSE LastElement(SubSeq(p, 1, MaxOf(keep)))

\* filepath.Base: the last element, trailing separators removed first.
Base(p) == IF p = <<>> THEN Dot ELSE BaseOf(p, {i \in 1..Len(p) : p[i] # Separator})

ExtOf(e, dots) == IF dots = {} THEN <<>> ELSE SubSeq(e, MaxOf(dots), Len(e))

\* filepath.Ext: the suffix beginning at the final dot of the final element.
Ext(p) == ExtOf(LastElement(p), {i \in 1..Len(LastElement(p)) : LastElement(p)[i] = "."})

\* filepath.ToSlash
ToSlash(p) == [i \in 1..Len(p) |-> IF p[i] = Separator THEN "/" ELSE p[i]]

\* The number of leading elements bs and ts share; d is where they differ.
SharedAt(bs, ts, d) == IF d = {} THEN Smaller(Len(bs), Len(ts)) ELSE MinOf(d) - 1

Shared(bs, ts) == SharedAt(bs, ts, {i \in 1..Smaller(Len(bs), Len(ts)) : bs[i] # ts[i]})

\* Rel once the first k elements are known to be shared: up from what is
\* left of the base, then down what is left of the target.
RelFrom(bs, ts, k) ==
    IF k < Len(bs) /\ bs[k + 1] = DotDot THEN [ok |-> FALSE, path |-> <<>>]
    ELSE [ok |-> TRUE,
          path |-> StrJoin([i \in 1..(Len(bs) - k) |-> DotDot] \o SubSeq(ts, k + 1, Len(ts)),
                           <<Separator>>)]

PathElements(cleaned) == IF cleaned = Dot THEN <<>> ELSE Elements(cleaned)

RelClean(base, targ) ==
    IF targ = base THEN [ok |-> TRUE, path |-> Dot]
    ELSE IF IsAbs(base) # IsAbs(targ) THEN [ok |-> FALSE, path |-> <<>>]
    ELSE RelFrom(PathElements(base), PathElements(targ),
                 Shared(PathElements(base), PathElements(targ)))

\* filepath.Rel(basepath, targpath): [ok, path].
Rel(basepath, targpath) == RelClean(Clean(basepath), Clean(targpath))

(***************************************************************************)
(* Config and readInputFile                                                *)
(***************************************************************************)

\* bufio.MaxScanTokenSize: the longest line bufio.Scanner buffers.
MaxScanTokenSize == 65536

\* &Config{...} as readInputFile creates it.
EmptyConfig ==
    [HeaderText |-> <<>>, BaseDir |-> <<>>, Includes |-> <<>>,
     ExcludeFolders |-> <<>>, ExcludeExtensions |-> <<>>, ExcludeFiles |-> <<>>]

DropLastIfEmpty(pieces) ==
    IF pieces[Len(pieces)] = <<>> THEN SubSeq(pieces, 1, Len(pieces) - 1) ELSE pieces

\* The pieces of the text between line feeds; a final piece without a line
\* feed is a line only when it is not empty (bufio.ScanLines).
RawLines(text) == DropLastIfEmpty(StrSplit(text, "\n"))

\* dropCR of bufio.ScanLines
DropCR(line) ==
    IF Len(line) > 0 /\ line[Len(line)] = "\r" THEN SubSeq(line, 1, Len(line) - 1)
    ELSE line

TooLong(raw) == \E k \in 1..Len(raw) : ByteLen(raw[k]) >= MaxScanTokenSize

\* scanner.Err() after the loop: bufio.ErrTooLong when a line fills the buffer
\* before its line feed is seen.
ScannerErr(text) == TooLong(RawLines(text))

DropCRs(raw) == [k \in 1..Len(raw) |-> DropCR(raw[k])]

\* The lines scanner.Text() yields.
ScanLines(text) == DropCRs(RawLines(text))

SplitAtFirst(line, at) ==
    IF at = {} THEN <<line>>
    ELSE <<SubSeq(line, 1, MinOf(at) - 1), SubSeq(line, MinOf(at) + 1, Len(line))>>

\* strings.SplitN(line, "=", 2)
SplitN2(line) == SplitAtFirst(line, {i \in 1..Len(line) : line[i] = "="})

K_basedir == <<"b", "a", "s", "e", "d", "i", "r">>
K_include == <<"i", "n", "c", "l", "u", "d", "e">>
K_excludefolder == <<"e", "x", "c", "l", "u", "d", "e", "f", "o", "l", "d", "e", "r">>
K_excludeextension ==
    <<"e", "x", "c", "l", "u", "d", "e", "e", "x", "t", "e", "n", "s", "i", "o", "n">>
K_excludefile == <<"e", "x", "c", "l", "u", "d", "e", "f", "i", "l", "e">>
HeaderSep == <<"-", "-", "-">>

\* The excludeextension case: a value not starting with "*." gets it prefixed.
NormalizeExt(value) ==
    IF HasPrefix(value, <<"*", ".">>) THEN value ELSE <<"*", ".">> \o value

\* The switch on the key of one directive line.
ApplyDirective(config, key, value) ==
    CASE key = K_basedir -> [config EXCEPT !.BaseDir = value]
      [] key = K_include -> [config EXCEPT !.Includes = Append(@, value)]
      [] key = K_excludefolder -> [config EXCEPT !.ExcludeFolders = Append(@, value)]
      [] key = K_excludeextension ->
             [config EXCEPT !.ExcludeExtensions = Append(@, NormalizeExt(value))]
      [] key = K_excludefile -> [config EXCEPT !.ExcludeFiles = Append(@, value)]
      [] OTHER -> config

\* A directive line whose key is compared as written.
ApplyPartsAsWritten(config, parts) ==
    IF Len(parts) # 2 THEN config
    ELSE ApplyDirective(config, TrimSpace(parts[1]), TrimSpace(parts[2]))

\* A directive line split at its first "=".
ApplyParts(config, parts) ==
    IF Len(parts) # 2 THEN config
    ELSE ApplyDirective(config, ToLower(TrimSpace(parts[1])), TrimSpace(parts[2]))

\* One iteration of the scanner loop; st = [isHeader, headerLines, config].
ScanStep(st, line) ==
    IF line = HeaderSep
    THEN [st EXCEPT !.isHeader = FALSE,
                    !.config.HeaderText = StrJoin(st.headerLines, <<"\n">>)]
    ELSE IF st.isHeader THEN [st EXCEPT !.headerLines = Append(@, line)]
    ELSE IF line = <<>> THEN st
    ELSE [st EXCEPT !.config = ApplyParts(@, SplitN2(line))]

RECURSIVE ScanLoop(_, _)
ScanLoop(st, lines) ==
    IF lines = <<>> THEN st ELSE ScanLoop(ScanStep(st, Head(lines)), Tail(lines))

\* readInputFile: [err, config]; file = [exists, text].
ReadInputFile(file) ==
    IF ~file.exists THEN [err |-> "error opening file", config |-> EmptyConfig]
    ELSE IF ScannerErr(file.text) THEN [err |-> "error reading file", config |-> EmptyConfig]
    ELSE [err |-> "",
          config |-> ScanLoop([isHeader |-> TRUE, headerLines |-> <<>>,
                               config |-> EmptyConfig], ScanLines(file.text)).config]

(***************************************************************************)
(* The file system the program runs on                                     *)
(*                                                                         *)
(* A file system maps the clean absolute path of every node to             *)
(* [kind, mode, content]. kind is "dir" or "file". A directory's mode is   *)
(* "ok", "noread" (it cannot be listed) or "nosearch" (it can be neither   *)
(* listed nor traversed); a file's mode is "ok", "noopen" (it cannot be    *)
(* opened) or "ioerr" (reads past its first block fail).                   *)
(***************************************************************************)

Root == <<Separator>>

ParentAt(p, last) == IF last = 1 THEN Root ELSE SubSeq(p, 1, last - 1)

\* The directory a clean absolute path lies in.
Parent(p) == ParentAt(p, MaxOf({i \in 1..Len(p) : p[i] = Separator}))

\* The node one element further from directory cur.
StepTo(cur, e) ==
    IF e = Dot THEN cur ELSE IF e = DotDot THEN Parent(cur) ELSE Join(cur, e)

\* Path resolution by the kernel, one element at a time from cur: the node
\* reached, or the error, where it arose and how many elements were left.
RECURSIVE Lookup(_, _, _)
Lookup(fsys, cur, elems) ==
    IF elems = <<>> THEN [errno |-> "", path |-> cur, rest |-> 0]
    ELSE IF fsys[cur].kind # "dir"
    THEN [errno |-> "ENOTDIR", path |-> cur, rest |-> Len(elems)]
    ELSE IF fsys[cur].mode = "nosearch"
    THEN [errno |-> "EACCES", path |-> cur, rest |-> Len(elems)]
    ELSE IF StepTo(cur, Head(elems)) \notin DOMAIN fsys
    THEN [errno |-> "ENOENT", path |-> StepTo(cur, Head(elems)), rest |-> Len(elems) - 1]
    ELSE Lookup(fsys, StepTo(cur, Head(elems)), Tail(elems))

EndsInSlash(p) == Len(p) > 0 /\ p[Len(p)] = Separator

\* A path that ends in a slash must name a directory.
MustBeDir(fsys, p, r) ==
    IF r.errno = "" /\ EndsInSlash(p) /\ fsys[r.path].kind # "dir"
    THEN [errno |-> "ENOTDIR", path |-> r.path, rest |-> 0]
    ELSE r

\* Resolution of path p in a process whose working directory is wd.
Resolve(fsys, wd, p) ==
    IF p = <<>> THEN [errno |-> "ENOENT", path |-> <<>>, rest |-> 0]
    ELSE MustBeDir(fsys, p, Lookup(fsys, IF IsAbs(p) THEN Root ELSE wd, Elements(p)))

StatOf(fsys, r) ==
    [errno |-> r.errno, path |-> r.path,
     isDir |-> r.errno = "" /\ fsys[r.path].kind = "dir"]

\* os.Stat(p): [errno, path, isDir].
Stat(fsys, wd, p) == StatOf(fsys, Resolve(fsys, wd, p))

\* os.IsNotExist(err)
IsNotExist(st) == st.errno = "ENOENT"

\* filepath.Abs(p): joined to the working directory unless absolute.
Abs(wd, p) == IF IsAbs(p) THEN Clean(p) ELSE Join(wd, p)

(***************************************************************************)
(* Config.validate                                                         *)
(***************************************************************************)

\* validate once c.BaseDir is absolute.
ValidateAbs(fsys, wd, c) ==
    IF IsNotExist(Stat(fsys, wd, c.BaseDir))
    THEN [err |-> "basedir does not exist", config |-> c]
    ELSE IF Len(c.Includes) = 0
    THEN [err |-> "at least one include path is required", config |-> c]
    ELSE [err |-> "", config |-> c]

\* validate: [err, config]; getwdOk tells whether os.Getwd succeeds.
Validate(fsys, wd, getwdOk, c) ==
    IF c.BaseDir = <<>> THEN [err |-> "basedir is required", config |-> c]
    ELSE IF IsAbs(c.BaseDir) THEN ValidateAbs(fsys, wd, c)
    ELSE IF ~getwdOk
    THEN [err |-> "failed to convert basedir to absolute path", config |-> c]
    ELSE ValidateAbs(fsys, wd, [c EXCEPT !.BaseDir = Abs(wd, c.BaseDir)])

(***************************************************************************)
(* isBinaryFile                                                            *)
(***************************************************************************)

\* The size of the buffer isBinaryFile reads into.
SniffSize == 512

\* A continuation byte, 0x80 .. 0xBF.
IsCont(c) == c >= 128 /\ c <= 191

\* b[j] exists and lies in lo .. hi.
InRange(b, j, lo, hi) == j <= Len(b) /\ b[j] >= lo /\ b[j] <= hi

\* The size of the well-formed encoded rune that starts at b[i], 0 when the
\* bytes there are no well-formed rune (the first and acceptRanges tables of
\* unicode/utf8).
RuneSize(b, i) ==
    IF b[i] < 128 THEN 1
    ELSE IF b[i] >= 194 /\ b[i] <= 223
    THEN IF InRange(b, i + 1, 128, 191) THEN 2 ELSE 0
    ELSE IF b[i] >= 224 /\ b[i] <= 239
    THEN IF /\ InRange(b, i + 1, IF b[i] = 224 THEN 160 ELSE 128,
                                 IF b[i] = 237 THEN 159 ELSE 191)
            /\ InRange(b, i + 2, 128, 191)
         THEN 3 ELSE 0
    ELSE IF b[i] >= 240 /\ b[i] <= 244
    THEN IF /\ InRange(b, i + 1, IF b[i] = 240 THEN 144 ELSE 128,
                                 IF b[i] = 244 THEN 143 ELSE 191)
            /\ InRange(b, i + 2, 128, 191)
            /\ InRange(b, i + 3, 128, 191)
         THEN 4 ELSE 0
    ELSE 0

\* A rune of size n starting at b[i] ends where the next one starts.
EndsAtStart(b, i, n) == n > 0 /\ (i + n <= Len(b) => ~IsCont(b[i + n]))

\* utf8.Valid: the loop decodes one rune after the other from the first byte
\* and fails at the first position that holds no well-formed rune. The runes
\* start at the first byte and after each rune, so the loop succeeds exactly
\* when the first byte is no continuation byte and every other byte that is
\* none starts a well-formed rune that ends where the next one starts.
Utf8Valid(b) ==
    /\ Len(b) > 0 => ~IsCont(b[1])
    /\ \A i \in 1..Len(b) : ~IsCont(b[i]) => EndsAtStart(b, i, RuneSize(b, i))

\* Reading the whole file instead of one buffer.
SniffAll(content) == content

\* buf[:n] after file.Read(buf) with a buffer of SniffSize bytes.
SniffBuf(content) == SubSeq(content, 1, Smaller(Len(content), SniffSize))

\* bytes.IndexByte(buf, 0) != -1
HasNul(buf) == \E i \in 1..Len(buf) : buf[i] = 0

\* The classification of the bytes read.
IsBinaryBuf(buf) == IF HasNul(buf) THEN TRUE ELSE ~Utf8Valid(buf)

IsBinaryContent(content) == IsBinaryBuf(SniffBuf(content))

\* Opening a resolved path r for reading and reading from it fails: it does
\* not resolve, is a directory, or may not be opened.
CannotRead(fsys, r) ==
    \/ r.errno # ""
    \/ fsys[r.path].kind = "dir"
    \/ fsys[r.path].mode = "noopen"

BinaryOf(fsys, r) ==
    IF CannotRead(fsys, r) THEN [err |-> TRUE, binary |-> FALSE]
    ELSE [err |-> FALSE, binary |-> IsBinaryContent(fsys[r.path].content)]

\* isBinaryFile(path): [err, binary].
IsBinaryFile(fsys, wd, path) == BinaryOf(fsys, Resolve(fsys, wd, path))

ContentOf(fsys, r) ==
    IF CannotRead(fsys, r) THEN [err |-> TRUE, content |-> <<>>]
    ELSE IF fsys[r.path].mode = "ioerr" /\ Len(fsys[r.path].content) > SniffSize
    THEN [err |-> TRUE, content |-> <<>>]
    ELSE [err |-> FALSE, content |-> fsys[r.path].content]

\* os.ReadFile(path): [err, content].
ReadFile(fsys, wd, path) == ContentOf(fsys, Resolve(fsys, wd, path))

(***************************************************************************)
(* The path filters                                                        *)
(***************************************************************************)

IsExcludedFolder(path, excludeFolders) ==
    \E k \in 1..Len(excludeFolders) : Base(path) = excludeFolders[k]

\* The extension rule compared without regard to case.
MatchesExtAnyCase(ext, excludeExtensions) ==
    IF ext = <<>> THEN FALSE
    ELSE \E k \in 1..Len(excludeExtensions) :
            ToLower(excludeExtensions[k]) = ToLower(<<"*">> \o ext)

MatchesExt(ext, excludeExtensions) ==
    IF ext = <<>> THEN FALSE
    ELSE \E k \in 1..Len(excludeExtensions) : excludeExtensions[k] = <<"*">> \o ext

IsExcludedExtension(path, excludeExtensions) == MatchesExt(Ext(path), excludeExtensions)

\* The file rule comparing relative paths only, never the bare name.
MatchesFilePathOnly(rel, path, excludeFiles) ==
    IF ~rel.ok THEN FALSE
    ELSE \E k \in 1..Len(excludeFiles) : ToSlash(rel.path) = ToSlash(excludeFiles[k])

\* rel is the path relative to the base directory.
MatchesFile(rel, path, excludeFiles) ==
    IF ~rel.ok THEN FALSE
    ELSE \E k \in 1..Len(excludeFiles) :
            \/ ToSlash(rel.path) = ToSlash(excludeFiles[k])
            \/ Base(path) = ToSlash(excludeFiles[k])

IsExcludedFile(path, baseDir, excludeFiles) ==
    MatchesFile(Rel(baseDir, path), path, excludeFiles)

(***************************************************************************)
(* filepath.Walk with the callback of collectFiles                         *)
(***************************************************************************)

\* The nodes directly inside directory dir.
Children(fsys, dir) == {p \in DOMAIN fsys : p # Root /\ Parent(p) = dir}

\* The least of a set of names.
LeastName(names) == CHOOSE a \in names : \A b \in names : a = b \/ StrLess(a, b)

\* sort.Strings
RECURSIVE SortNames(_)
SortNames(names) ==
    IF names = {} THEN <<>>
    ELSE <<LeastName(names)>> \o SortNames(names \ {LeastName(names)})

\* readDirNames: the names inside a directory, sorted.
ReadDirNames(fsys, dir) == SortNames({Base(p) : p \in Children(fsys, dir)})

Collected(rel) ==
    IF rel.ok THEN [files |-> <<rel.path>>, err |-> ""]
    ELSE [files |-> <<>>, err |-> "error"]

\* The callback on a file: its path relative to the walked root is
\* collected unless an extension or file rule excludes it.
VisitFile(root, path, config) ==
    IF /\ ~IsExcludedExtension(path, config.ExcludeExtensions)
       /\ ~IsExcludedFile(path, config.BaseDir, config.ExcludeFiles)
    THEN Collected(Rel(root, path))
    ELSE [files |-> <<>>, err |-> ""]

\* The callback without the folder rule: every directory is descended into.
VisitDirNoPrune(path, readErr, config) == IF readErr THEN "error" ELSE ""

\* The callback on a directory; readErr tells whether listing it failed.
VisitDir(path, readErr, config) ==
    IF readErr THEN "error"
    ELSE IF IsExcludedFolder(path, config.ExcludeFolders) THEN "SkipDir"
    ELSE ""

\* The files of r before those of more, with the error of more.
Then(r, more) == [files |-> r.files \o more.files, err |-> more.err]

\* walk(path, info, fn): [files, err], err one of "", "SkipDir", "error";
\* the files are those the callback has collected when walk returns.
RECURSIVE WalkNode(_, _, _, _)
RECURSIVE WalkNames(_, _, _, _, _)
RECURSIVE WalkRest(_, _, _, _, _, _)
RECURSIVE WalkDir(_, _, _, _, _)
WalkNode(fsys, root, path, config) ==
    IF fsys[path].kind # "dir" THEN VisitFile(root, path, config)
    ELSE WalkDir(fsys, root, path, config, VisitDir(path, fsys[path].mode # "ok", config))

\* The directory at path once the callback has returned err1 for it.
WalkDir(fsys, root, path, config, err1) ==
    IF err1 # "" THEN [files |-> <<>>, err |-> err1]
    ELSE WalkNames(fsys, root, path, ReadDirNames(fsys, path), config)

\* The loop over the names of directory dir.
WalkNames(fsys, root, dir, names, config) ==
    IF names = <<>> THEN [files |-> <<>>, err |-> ""]
    ELSE WalkRest(fsys, root, dir, names, config,
                  WalkNode(fsys, root, Join(dir, Head(names)), config))

\* The rest of the loop once walk has returned r for the first name: an
\* error ends it, unless it is SkipDir from a directory.
WalkRest(fsys, root, dir, names, config, r) ==
    IF r.err # "" /\ (fsys[Join(dir, Head(names))].kind # "dir" \/ r.err # "SkipDir")
    THEN r
    ELSE Then(r, WalkNames(fsys, root, dir, Tail(names), config))

SkipDirIsNil(r) == IF r.err = "SkipDir" THEN [files |-> r.files, err |-> ""] ELSE r

\* filepath.Walk(root, fn): SkipDir from the root is no error.
Walk(fsys, root, config) == SkipDirIsNil(WalkNode(fsys, root, root, config))

NilOnError(r) ==
    IF r.err # "" THEN [err |-> TRUE, files |-> <<>>] ELSE [err |-> FALSE, files |-> r.files]

\* collectFiles(path, config): [err, files].
CollectFiles(fsys, path, config) == NilOnError(Walk(fsys, path, config))

(***************************************************************************)
(* findFiles                                                               *)
(***************************************************************************)

\* The files a directory include collected, the include entry joined in front.
Prefixed(includePath, c) ==
    [err |-> c.err,
     files |-> [k \in 1..Len(c.files) |-> Join(includePath, c.files[k])],
     warn |-> FALSE]

\* What an include entry adds once os.Stat has returned st for fullPath.
IncludeOf(fsys, config, includePath, fullPath, st) ==
    IF st.errno # "" THEN [err |-> FALSE, files |-> <<>>, warn |-> TRUE]
    ELSE IF st.isDir THEN Prefixed(includePath, CollectFiles(fsys, fullPath, config))
    ELSE IF /\ ~IsExcludedExtension(fullPath, config.ExcludeExtensions)
            /\ ~IsExcludedFile(fullPath, config.BaseDir, config.ExcludeFiles)
    THEN [err |-> FALSE, files |-> <<includePath>>, warn |-> FALSE]
    ELSE [err |-> FALSE, files |-> <<>>, warn |-> FALSE]

\* What one include entry adds: [err, files, warn].
IncludeResult(fsys, wd, config, includePath) ==
    IncludeOf(fsys, config, includePath, Join(config.BaseDir, includePath),
              Stat(fsys, wd, Join(config.BaseDir, includePath)))

\* The loop over config.Includes: [err, files, warnings].
RECURSIVE FindLoop(_, _, _, _, _, _)
RECURSIVE FindRest(_, _, _, _, _, _, _)
FindLoop(fsys, wd, config, includes, allFiles, warned) ==
    IF includes = <<>> THEN [err |-> FALSE, files |-> allFiles, warnings |-> warned]
    ELSE FindRest(fsys, wd, config, includes, allFiles, warned,
                  IncludeResult(fsys, wd, config, Head(includes)))

\* The loop putting the files of an entry in front of those of the entries
\* before it.
FindRestInFront(fsys, wd, config, includes, allFiles, warned, r) ==
    IF r.warn
    THEN FindLoop(fsys, wd, config, Tail(includes), allFiles,
                  Append(warned, [kind |-> "access", path |-> Head(includes)]))
    ELSE IF r.err THEN [err |-> TRUE, files |-> <<>>, warnings |-> warned]
    ELSE FindLoop(fsys, wd, config, Tail(includes), r.files \o allFiles, warned)

\* The rest of the loop once the first entry has given r.
FindRest(fsys, wd, config, includes, allFiles, warned, r) ==
    IF r.warn
    THEN FindLoop(fsys, wd, config, Tail(includes), allFiles,
                  Append(warned, [kind |-> "access", path |-> Head(includes)]))
    ELSE IF r.err THEN [err |-> TRUE, files |-> <<>>, warnings |-> warned]
    ELSE FindLoop(fsys, wd, config, Tail(includes), allFiles \o r.files, warned)

FindFiles(fsys, wd, config) == FindLoop(fsys, wd, config, config.Includes, <<>>, <<>>)

(***************************************************************************)
(* generateOutput                                                          *)
(***************************************************************************)

NL == 10
Fence == <<96, 96, 96>>

NewFile == [kind |-> "file", mode |-> "ok", content |-> <<>>]

\* os.Create once the path has resolved to r: an existing file is
\* truncated, a missing last element is created.
CreateAt(fsys, r) ==
    IF r.errno = ""
    THEN IF fsys[r.path].kind = "dir" \/ fsys[r.path].mode = "noopen"
         THEN [err |-> TRUE, fs |-> fsys, path |-> r.path]
         ELSE [err |-> FALSE, fs |-> [fsys EXCEPT ![r.path].content = <<>>], path |-> r.path]
    ELSE IF r.errno = "ENOENT" /\ r.rest = 0 /\ r.path # <<>>
    THEN [err |-> FALSE,
          fs |-> [q \in DOMAIN fsys \cup {r.path} |-> IF q = r.path THEN NewFile ELSE fsys[q]],
          path |-> r.path]
    ELSE [err |-> TRUE, fs |-> fsys, path |-> r.path]

\* os.Create(path): [err, fs, path]. open(2) with O_CREAT refuses a path that
\* ends in a slash.
Create(fsys, wd, path) ==
    IF EndsInSlash(path) THEN [err |-> TRUE, fs |-> fsys, path |-> path]
    ELSE CreateAt(fsys, Resolve(fsys, wd, path))

\* A write to the open output file.
WriteTo(fsys, out, bytes) == [fsys EXCEPT ![out].content = @ \o bytes]

\* The section of one file: heading, fence, content, fence, blank line.
Section(fullPath, content) ==
    <<35, 32>> \o Bytes(fullPath) \o <<NL>> \o Fence \o <<NL>> \o content \o <<NL>>
        \o Fence \o <<NL>> \o <<NL>>

\* The loop over the files: [err, fs, warnings].
RECURSIVE OutputLoop(_, _, _, _, _, _)
RECURSIVE OutputChecked(_, _, _, _, _, _, _)
RECURSIVE OutputRead(_, _, _, _, _, _, _)
OutputLoop(fsys, wd, out, config, fileList, warned) ==
    IF fileList = <<>> THEN [err |-> "", fs |-> fsys, warnings |-> warned]
    ELSE OutputChecked(fsys, wd, out, config, fileList, warned,
                       IsBinaryFile(fsys, wd, Join(config.BaseDir, Head(fileList))))

\* The first file once isBinaryFile has returned bin.
OutputChecked(fsys, wd, out, config, fileList, warned, bin) ==
    IF bin.err
    THEN OutputLoop(fsys, wd, out, config, Tail(fileList),
                    Append(warned, [kind |-> "bincheck", path |-> Head(fileList)]))
    ELSE IF bin.binary
    THEN OutputLoop(fsys, wd, out, config, Tail(fileList),
                    Append(warned, [kind |-> "binary", path |-> Head(fileList)]))
    ELSE OutputRead(fsys, wd, out, config, fileList, warned,
                    ReadFile(fsys, wd, Join(config.BaseDir, Head(fileList))))

\* The first file once os.ReadFile has returned rd.
OutputRead(fsys, wd, out, config, fileList, warned, rd) ==
    IF rd.err THEN [err |-> "error reading file", fs |-> fsys, warnings |-> warned]
    ELSE OutputLoop(WriteTo(fsys, out,
                            Section(Join(config.BaseDir, Head(fileList)), rd.content)),
                    wd, out, config, Tail(fileList), warned)

\* The header and the blank line after it.
HeaderBytes(config) ==
    IF config.HeaderText # <<>> THEN Bytes(config.HeaderText) \o <<NL>> \o <<NL>> ELSE <<>>

OutputTo(wd, config, fileList, cr) ==
    IF cr.err THEN [err |-> "error creating output file", fs |-> cr.fs, warnings |-> <<>>]
    ELSE OutputLoop(WriteTo(cr.fs, cr.path, HeaderBytes(config)), wd, cr.path, config,
                    fileList, <<>>)

\* generateOutput(config, files, outputPath): [err, fs, warnings].
GenerateOutput(fsys, wd, config, fileList, outputPath) ==
    OutputTo(wd, config, fileList, Create(fsys, wd, outputPath))

(***************************************************************************)
(* The runs that are checked: configuration texts, file trees, flags       *)
(***************************************************************************)

\* The longest include list of the configurations tried.
MaxIncludes == 2
\* The most excludeextension directives of the configurations tried.
MaxExts == 2
\* The most lines of the configuration texts tried line by line.
MaxLines == 3
\* The most bytes tried after the padding of a file's content.
MaxTail == 3
\* The most runs of the tool in a row.
MaxRuns == 2

N_w == <<"w">>
N_x == <<"x">>
N_f == <<"f">>
N_src == <<"s", "r", "c">>
N_lib == <<"l", "i", "b">>
N_sub == <<"s", "u", "b">>
N_a_go == <<"a", ".", "g", "o">>
N_b_json == <<"b", ".", "j", "s", "o", "n">>
N_c_go == <<"c", ".", "g", "o">>
N_sub_go == <<"s", "u", "b", ".", "g", "o">>
N_Z_JSON == <<"Z", ".", "J", "S", "O", "N">>
N_x_bin == <<"x", ".", "b", "i", "n">>
N_out_md == <<"o", "u", "t", ".", "m", "d">>
N_missing == <<"m", "i", "s", "s", "i", "n", "g">>
N_zzz == <<"z", "z", "z">>
N_json == <<"j", "s", "o", "n">>
N_JSON == <<"J", "S", "O", "N">>
N_go == <<"g", "o">>
N_a_json == <<"a", ".", "j", "s", "o", "n">>
N_a_JSON == <<"a", ".", "J", "S", "O", "N">>
N_a_b_json == <<"a", ".", "b", ".", "j", "s", "o", "n">>
N_dotjson == <<".", "j", "s", "o", "n">>
N_a_dot == <<"a", ".">>
N_nodot == <<"n", "o", "d", "o", "t">>
N_d_json == <<"d", ".", "j", "s", "o", "n">>
Hi == <<"H", "i">>

\* a/b as text
Sl(a, b) == a \o <<"/">> \o b

P_w == <<"/">> \o N_w
P_src == Sl(P_w, N_src)
P_lib == Sl(P_w, N_lib)
P_o == <<"/", "o">>
P_p == <<"/", "p">>
P_out == Sl(P_o, N_out_md)

DirNode(mode) == [kind |-> "dir", mode |-> mode, content |-> <<>>]
FileNode(mode, content) == [kind |-> "file", mode |-> mode, content |-> content]

\* The tree: /w/src/{a.go, b.json, sub/c.go}, /w/lib/{Z.JSON, a.go, sub/x.bin,
\* sub.go}, an empty /o, and /p, which cannot be traversed. fault damages one
\* node: "noread" /w/lib/sub, "noopen" /w/src/a.go, "ioerr" /w/src/sub/c.go
\* (which is then longer than one block).
Tree(fault) ==
    (Root :> DirNode("ok")) @@ (P_w :> DirNode("ok")) @@ (P_o :> DirNode("ok")) @@
    (P_p :> DirNode("nosearch")) @@ (Sl(P_p, N_x) :> DirNode("ok")) @@
    (P_src :> DirNode("ok")) @@
    (Sl(P_src, N_a_go) :> FileNode(IF fault = "noopen" THEN "noopen" ELSE "ok", <<65>>)) @@
    (Sl(P_src, N_b_json) :> FileNode("ok", <<123, 125>>)) @@
    (Sl(P_src, N_sub) :> DirNode("ok")) @@
    (Sl(Sl(P_src, N_sub), N_c_go) :>
        IF fault = "ioerr" THEN FileNode("ioerr", [i \in 1..SniffSize + 1 |-> 67])
        ELSE FileNode("ok", <<67, 195, 169>>)) @@
    (P_lib :> DirNode("ok")) @@
    (Sl(P_lib, N_Z_JSON) :> FileNode("ok", <<90>>)) @@
    (Sl(P_lib, N_a_go) :> FileNode("ok", <<76>>)) @@
    (Sl(P_lib, N_sub) :> DirNode(IF fault = "noread" THEN "noread" ELSE "ok")) @@
    (Sl(Sl(P_lib, N_sub), N_x_bin) :> FileNode("ok", <<120, 0, 121>>)) @@
    (Sl(P_lib, N_sub_go) :> FileNode("ok", <<255, 116>>))

Faults == {"none", "noread", "noopen", "ioerr"}

\* The names of the files of /w/x in the tree of the extension runs.
ExtNames == {N_a_json, N_a_JSON, N_a_b_json, N_dotjson, N_a_dot, N_nodot, N_json, N_a_go}

\* The tree of the extension runs: the files ExtNames in /w/x, and a file
\* without extension in a directory with one, /w/d.json/nodot.
ExtTree ==
    [p \in {Root, P_w, P_o, Sl(P_w, N_x), Sl(P_w, N_d_json)}
           \cup {Sl(Sl(P_w, N_x), n) : n \in ExtNames}
           \cup {Sl(Sl(P_w, N_d_json), N_nodot)} |->
        IF p \in {Root, P_w, P_o, Sl(P_w, N_x), Sl(P_w, N_d_json)} THEN DirNode("ok")
        ELSE FileNode("ok", <<65>>)]

\* The tree of the content runs: the one file /w/f.
BinTree(content) ==
    (Root :> DirNode("ok")) @@ (P_w :> DirNode("ok")) @@ (P_o :> DirNode("ok")) @@
    (Sl(P_w, N_f) :> FileNode("ok", content))

\* All sequences over S of length lo .. hi.
SeqsOf(S, lo, hi) == UNION {[1..k -> S] : k \in lo..hi}

\* The lines of a text file.
TextOf(lines) == StrJoin(lines, <<"\n">>) \o <<"\n">>

\* key=value lines, one per value, in order.
Directives(key, values) == [k \in 1..Len(values) |-> key \o <<"=">> \o values[k]]

\* A configuration text, keys spelled as in the README.
ConfigText(header, bases, includes, exfolders, exexts, exfiles) ==
    TextOf(header \o <<HeaderSep>>
             \o Directives(<<"b", "a", "s", "e", "d", "i", "r">>, bases)
             \o Directives(<<"i", "n", "c", "l", "u", "d", "e">>, includes)
             \o Directives(<<"e", "x", "c", "l", "u", "d", "e", "F", "o", "l", "d", "e", "r">>,
                           exfolders)
             \o Directives(<<"e", "x", "c", "l", "u", "d", "e", "E", "x", "t", "e", "n",
                             "s", "i", "o", "n">>, exexts)
             \o Directives(<<"e", "x", "c", "l", "u", "d", "e", "F", "i", "l", "e">>, exfiles))

\* A run: the configuration text (and whether its file exists), the tree,
\* the -output flag, whether os.Getwd succeeds.
RunOf(text, tree, output, getwdOk, inputExists) ==
    [text |-> text, fs |-> tree, output |-> output, getwd |-> getwdOk, input |-> inputExists]

IncludeChoices == {N_src, N_lib, Sl(N_src, N_sub), Sl(N_src, N_a_go), N_missing}

\* Runs that vary the include list and the exclusion rules.
FilterRuns ==
    {RunOf(ConfigText(<<Hi>>, <<P_w>>, i, d, e, f), Tree("none"), P_out, TRUE, TRUE) :
        i \in SeqsOf(IncludeChoices, 1, MaxIncludes),
        d \in {<<>>, <<N_sub>>, <<N_src>>},
        e \in {<<>>, <<N_json>>},
        f \in {<<>>, <<N_a_go>>, <<Sl(N_src, N_a_go)>>}}
    \cup
    {RunOf(ConfigText(<<Hi>>, <<Dot>>, <<i>>, d, e, f), Tree("none"), P_out, TRUE, TRUE) :
        i \in IncludeChoices,
        d \in {<<>>, <<N_sub>>, <<N_src>>},
        e \in {<<>>, <<N_json>>},
        f \in {<<>>, <<N_a_go>>, <<Sl(N_src, N_a_go)>>}}

\* Runs that vary what validate looks at.
ValidateRuns ==
    {RunOf(ConfigText(<<Hi>>, b, i, <<>>, <<>>, <<>>), Tree("none"), P_out, g, x) :
        b \in {<<>>, <<Dot>>, <<P_w>>, <<P_w \o <<"/">>>>, <<N_src>>, <<<<"/">> \o N_missing>>,
               <<N_missing>>, <<Sl(P_src, N_a_go)>>, <<Sl(P_src, N_a_go) \o <<"/">>>>,
               <<Sl(P_p, N_x)>>, <<Sl(Sl(P_src, N_a_go), N_zzz)>>, <<Sl(P_p, N_zzz)>>},
        i \in {<<>>, <<N_src>>, <<Dot>>},
        g \in BOOLEAN, x \in BOOLEAN}

\* Runs that vary the damaged node, the output path and the header.
OutputRuns ==
    {RunOf(ConfigText(h, <<P_w>>, i, <<>>, <<>>, <<>>), Tree(fault), o, TRUE, TRUE) :
        h \in {<<>>, <<Hi, <<>>, Hi>>},
        i \in {<<Dot>>, <<N_src>>, <<N_lib>>, <<N_missing, N_src>>, <<N_src, N_lib>>},
        o \in {P_out, Sl(P_w, N_out_md), Sl(N_src, N_out_md),
               Sl(<<"/">> \o N_missing, N_out_md), P_src, P_out \o <<"/">>},
        fault \in Faults}

ExtValues == {N_json, N_JSON, <<"*", ".">> \o N_json, N_dotjson, <<>>, N_go, <<"*">> \o N_json}

\* Runs that vary the excludeextension values over files with and without
\* extensions, reached by a walk and included directly.
ExtRuns ==
    {RunOf(ConfigText(<<>>, <<P_w>>, i, <<>>, e, <<>>), ExtTree, P_out, TRUE, TRUE) :
        i \in {<<N_x>>, <<Dot>>, <<Sl(N_x, N_a_json), Sl(N_x, N_a_JSON), Sl(N_x, N_nodot)>>,
               <<Sl(N_x, N_a_dot), Sl(N_x, N_dotjson), Sl(N_d_json, N_nodot)>>},
        e \in SeqsOf(ExtValues, 0, MaxExts)}

\* n bytes "a"
Pad(n) == [i \in 1..n |-> 97]

PadChoices == {0, SniffSize - 2, SniffSize - 1, SniffSize}
TailBytes == {0, 65, 195, 169}

\* Runs that vary the content of the one included file around the end of
\* the first block.
BinaryRuns ==
    {RunOf(ConfigText(<<>>, <<P_w>>, <<N_f>>, <<>>, <<>>, <<>>), BinTree(Pad(n) \o t),
           P_out, TRUE, TRUE) :
        n \in PadChoices, t \in SeqsOf(TailBytes, 0, MaxTail)}

LineChoices ==
    {HeaderSep, <<>>, Hi,
     K_include \o <<"=">> \o N_src,
     <<" ", "I", "n", "c", "l", "u", "d", "e", " ", "=", " ">> \o N_lib \o <<" ">>,
     K_basedir \o <<"=">> \o P_w,
     <<"B", "a", "s", "e", "D", "i", "r", "=", ".", "=", "x">>,
     N_nodot,
     <<"f", "o", "o", "=", "b", "a", "r">>,
     K_excludeextension \o <<"=">> \o N_json,
     <<"e", "x", "c", "l", "u", "d", "e", "F", "o", "l", "d", "e", "r", "=">> \o N_sub,
     K_excludefile \o <<"=", "a", "=", "b", "\r">>,
     <<"\f">> \o K_excludefolder \o <<"vt", "=", "nbsp">> \o N_sub \o <<"nel">>}

\* A line of n characters.
LongLine(n) == [i \in 1..n |-> "x"]

\* Runs that vary the configuration text line by line, with lines at the
\* scanner's limit, without a final line feed, and without the file.
ParseRuns ==
    {RunOf(TextOf(ls), Tree("none"), P_out, TRUE, TRUE) :
        ls \in SeqsOf(LineChoices, 0, MaxLines)}
    \cup {RunOf(t, Tree("none"), P_out, TRUE, TRUE) :
            t \in {LongLine(MaxScanTokenSize),
                   LongLine(MaxScanTokenSize - 1),
                   <<"nbsp">> \o LongLine(MaxScanTokenSize - 2),
                   HeaderSep \o <<"\n">> \o K_include \o <<"=">> \o LongLine(MaxScanTokenSize),
                   HeaderSep \o <<"\n">> \o K_include \o <<"=">> \o N_src,
                   <<>>}}
    \cup {RunOf(<<>>, Tree("none"), P_out, TRUE, FALSE)}

(***************************************************************************)
(* main                                                                    *)
(***************************************************************************)

VARIABLES
    fs,          \* the file system
    cwd,         \* the working directory of the process
    getwd,       \* whether os.Getwd succeeds
    inputFile,   \* the file -input names: [exists, text]
    outputPath,  \* the path -output names
    pc,          \* where main is: "start", "parsed", "validated", "found", "exit"
    config,      \* *Config
    files,       \* the result of findFiles
    warnings,    \* the warnings printed so far: [kind, path]
    calls,       \* the functions main has called so far
    err,         \* the error that ended the run, "" when none
    exitCode,    \* the exit code, -1 while main runs
    run,         \* the number of this run of the tool, from 1
    prev         \* the previous run: [ran, exitCode, exists, content], the
                 \* last two the output document it left

vars == <<fs, cwd, getwd, inputFile, outputPath, pc, config, files, warnings, calls,
          err, exitCode, run, prev>>

NoRun == [ran |-> FALSE, exitCode |-> 0, exists |-> FALSE, content |-> <<>>]

\* The state in which the tool is started on run sc.
Start(sc) ==
    /\ fs = sc.fs
    /\ cwd = P_w
    /\ getwd = sc.getwd
    /\ inputFile = [exists |-> sc.input, text |-> sc.text]
    /\ outputPath = sc.output
    /\ pc = "start"
    /\ config = EmptyConfig
    /\ files = <<>>
    /\ warnings = <<>>
    /\ calls = <<>>
    /\ err = ""
    /\ exitCode = -1
    /\ run = 1
    /\ prev = NoRun

Init == \E sc \in FilterRuns \cup ValidateRuns \cup OutputRuns : Start(sc)

\* os.Exit(1) after the message
Fail(e) == /\ err' = e
           /\ exitCode' = 1
           /\ pc' = "exit"

ReadInputDone(r) ==
    IF r.err # "" THEN Fail(r.err) /\ UNCHANGED config
    ELSE config' = r.config /\ pc' = "parsed" /\ UNCHANGED <<err, exitCode>>

\* config, err := readInputFile(*inputFile)
DoReadInputFile ==
    /\ pc = "start"
    /\ calls' = Append(calls, "readInputFile")
    /\ ReadInputDone(ReadInputFile(inputFile))
    /\ UNCHANGED <<fs, cwd, getwd, inputFile, outputPath, files, warnings, run, prev>>

ValidateDone(r) ==
    /\ config' = r.config
    /\ IF r.err # "" THEN Fail(r.err) ELSE pc' = "validated" /\ UNCHANGED <<err, exitCode>>

\* err := config.validate()
DoValidate ==
    /\ pc = "parsed"
    /\ calls' = Append(calls, "validate")
    /\ ValidateDone(Validate(fs, cwd, getwd, config))
    /\ UNCHANGED <<fs, cwd, getwd, inputFile, outputPath, files, warnings, run, prev>>

\* The warning main prints when findFiles has found nothing.
NoFilesFound == [kind |-> "nofiles", path |-> <<>>]

FindFilesDone(r) ==
    /\ warnings' = IF ~r.err /\ r.files = <<>>
                   THEN Append(warnings \o r.warnings, NoFilesFound)
                   ELSE warnings \o r.warnings
    /\ files' = r.files
    /\ IF r.err THEN Fail("error collecting files")
       ELSE pc' = "found" /\ UNCHANGED <<err, exitCode>>

\* files, err := findFiles(config)
DoFindFiles ==
    /\ pc = "validated"
    /\ calls' = Append(calls, "findFiles")
    /\ FindFilesDone(FindFiles(fs, cwd, config))
    /\ UNCHANGED <<fs, cwd, getwd, inputFile, outputPath, config, run, prev>>

GenerateOutputDone(r) ==
    /\ fs' = r.fs
    /\ warnings' = warnings \o r.warnings
    /\ IF r.err # "" THEN Fail(r.err)
       ELSE pc' = "exit" /\ exitCode' = 0 /\ UNCHANGED err

\* err := generateOutput(config, files, *outputFile), then main returns.
DoGenerateOutput ==
    /\ pc = "found"
    /\ calls' = Append(calls, "generateOutput")
    /\ GenerateOutputDone(GenerateOutput(fs, cwd, config, files, outputPath))
    /\ UNCHANGED <<cwd, getwd, inputFile, outputPath, config, files, run, prev>>

\* The document the output path names, if there is one.
DocumentAt(fsys, r) ==
    IF r.errno = "" /\ fsys[r.path].kind = "file"
    THEN [exists |-> TRUE, content |-> fsys[r.path].content]
    ELSE [exists |-> FALSE, content |-> <<>>]

Document == DocumentAt(fs, Resolve(fs, cwd, outputPath))

\* The tool is started again with the same flags on the tree as it is now.
Rerun ==
    /\ pc = "exit"
    /\ run < MaxRuns
    /\ run' = run + 1
    /\ prev' = [ran |-> TRUE, exitCode |-> exitCode, exists |-> Document.exists,
                content |-> Document.content]
    /\ pc' = "start"
    /\ config' = EmptyConfig
    /\ files' = <<>>
    /\ warnings' = <<>>
    /\ calls' = <<>>
    /\ err' = ""
    /\ exitCode' = -1
    /\ UNCHANGED <<fs, cwd, getwd, inputFile, outputPath>>

Next == DoReadInputFile \/ DoValidate \/ DoFindFiles \/ DoGenerateOutput

\* One run of the tool.
Spec == Init /\ [][Next]_vars

InitExt == \E sc \in ExtRuns : Start(sc)
SpecExt == InitExt /\ [][Next]_vars

InitBinary == \E sc \in BinaryRuns : Start(sc)
SpecBinary == InitBinary /\ [][Next]_vars

InitParse == \E sc \in ParseRuns : Start(sc)
SpecParse == InitParse /\ [][Next]_vars

InitTwice == \E sc \in OutputRuns : Start(sc)
NextTwice == Next \/ Rerun
\* Runs of the tool in a row.
SpecTwice == InitTwice /\ [][NextTwice]_vars

(***************************************************************************)
(* Properties                                                              *)
(***************************************************************************)

\* findFiles has returned its list to main.
Found == pc = "found"

FullPath(p) == Join(config.BaseDir, p)

\* Whether include entry inc names a directory, a file.
IsDirInclude(inc) == Stat(fs, cwd, FullPath(inc)).isDir
IsFileInclude(inc) ==
    Stat(fs, cwd, FullPath(inc)).errno = "" /\ ~Stat(fs, cwd, FullPath(inc)).isDir

IsFolderRule(name) == \E k \in 1..Len(config.ExcludeFolders) : config.ExcludeFolders[k] = name

\* r is a proper prefix of f.
ProperPrefix(r, f) == Len(r) < Len(f) /\ SubSeq(f, 1, Len(r)) = r

\* File f was collected by the walk of directory include inc, and neither
\* the directory of inc nor a directory between it and f has an excluded name.
WalkedClear(f, inc) ==
    LET r == Elements(FullPath(inc))
        e == Elements(FullPath(f))
    IN  /\ IsDirInclude(inc)
        /\ ProperPrefix(r, e)
        /\ ProperPrefix(Elements(Clean(inc)), Elements(f)) \/ Clean(inc) = Dot
        /\ \A m \in Len(r)..(Len(e) - 1) : m >= 1 => ~IsFolderRule(e[m])

\* C1 (as amended): every path findFiles returns is a file include entry
\* itself, or was collected by the walk of a directory include entry, and
\* then neither that entry's own directory nor any directory between it and
\* the file has a final path segment equal to an excludeFolders entry.
C1_PrunedBelowInclude ==
    Found =>
        \A k \in 1..Len(files) :
            \E j \in 1..Len(config.Includes) :
                \/ IsFileInclude(config.Includes[j]) /\ files[k] = config.Includes[j]
                \/ WalkedClear(files[k], config.Includes[j])

\* excludefolder=sub, include=src: src/sub/c.go is pruned, the rest is kept.
C1_Witness ==
    /\ Found
    /\ config.ExcludeFolders = <<N_sub>>
    /\ config.ExcludeExtensions = <<>>
    /\ config.ExcludeFiles = <<>>
    /\ config.Includes = <<N_src>>
    /\ files = <<Sl(N_src, N_a_go), Sl(N_src, N_b_json)>>

\* C1 as stated: no returned path lies beneath a directory whose final path
\* segment equals an excludeFolders entry, include entries inside an
\* excluded folder included.
C1_NothingBelowExcludedFolder ==
    Found =>
        \A k \in 1..Len(files) :
            \A m \in 1..(Len(Elements(Clean(files[k]))) - 1) :
                ~IsFolderRule(Elements(Clean(files[k]))[m])

\* C2 as stated: when findFiles begins, config.BaseDir is an absolute path
\* that names an existing directory.
C2_BaseDirIsDirectory ==
    pc = "validated" => IsAbs(config.BaseDir) /\ Stat(fs, cwd, config.BaseDir).isDir

E_NoBaseDir == "basedir is required"
E_NoSuchBaseDir == "basedir does not exist"
E_NoIncludes == "at least one include path is required"
ValidationErrors ==
    {E_NoBaseDir, E_NoSuchBaseDir, E_NoIncludes, "failed to convert basedir to absolute path"}

\* validate has been called in this run.
Validated == Len(calls) >= 2

\* config.BaseDir names no node of the tree.
BaseDirMissing ==
    /\ config.BaseDir # <<>>
    /\ IsAbs(config.BaseDir)
    /\ Clean(config.BaseDir) \notin DOMAIN fs

\* C3 as stated: validate rejects an empty base directory, a base directory
\* that does not exist and an empty include list, each with an error of its
\* own, and a run whose validation fails exits with code 1 having called
\* neither findFiles nor generateOutput, the tree untouched.
C3_ValidateRejects ==
    /\ Validated /\ config.BaseDir = <<>> => err = E_NoBaseDir
    /\ Validated /\ BaseDirMissing => err = E_NoSuchBaseDir
    /\ Validated /\ config.BaseDir # <<>> /\ IsAbs(config.BaseDir) /\ ~BaseDirMissing
           /\ config.Includes = <<>>
         => err = E_NoIncludes
    /\ Cardinality({E_NoBaseDir, E_NoSuchBaseDir, E_NoIncludes}) = 3
    /\ err \in ValidationErrors =>
           /\ pc = "exit"
           /\ exitCode = 1
           /\ calls = <<"readInputFile", "validate">>
           /\ files = <<>>
           /\ \E fault \in Faults : fs = Tree(fault)

HasSlash(e) == \E i \in 1..Len(e) : e[i] = "/"

\* An excludefile entry hides f: with a directory part, when f's path
\* relative to the base directory equals it; a bare name, when f's name does.
HiddenBy(e, f) == IF HasSlash(e) THEN Clean(f) = e ELSE LastElement(Clean(f)) = e

Hidden(f) == \E k \in 1..Len(config.ExcludeFiles) : HiddenBy(config.ExcludeFiles[k], f)
NotHidden(f) == ~Hidden(f)

\* What findFiles returns with the excludefile rules taken away.
WithoutFileRules == FindFiles(fs, cwd, [config EXCEPT !.ExcludeFiles = <<>>]).files

\* C4: the excludefile rules remove from the result exactly the files an
\* entry hides: an entry with a directory part the one file at that path
\* relative to the base directory, a bare file name every file of that name,
\* walked or included directly.
C4_FileExclusion == Found => files = SelectSeq(WithoutFileRules, NotHidden)

\* excludefile=a.go hides src/a.go and lib/a.go, the one walked from src,
\* the other from lib.
C4_WitnessBare ==
    /\ Found
    /\ config.ExcludeFiles = <<N_a_go>>
    /\ config.ExcludeFolders = <<>>
    /\ config.ExcludeExtensions = <<>>
    /\ config.Includes = <<N_src, N_lib>>
    /\ files = <<Sl(N_src, N_b_json), Sl(Sl(N_src, N_sub), N_c_go), Sl(N_lib, N_Z_JSON),
                 Sl(Sl(N_lib, N_sub), N_x_bin), Sl(N_lib, N_sub_go)>>

\* The result of findFiles for the one include entry inc.
Alone(inc) == FindFiles(fs, cwd, [config EXCEPT !.Includes = <<inc>>]).files

RECURSIVE Concat(_)
Concat(seqs) == IF seqs = <<>> THEN <<>> ELSE Head(seqs) \o Concat(Tail(seqs))

\* Path f comes before path g in a walk that visits the names of every
\* directory in sorted order: at the first element in which they differ.
WalkBefore(f, g) ==
    LET a == Elements(f)
        b == Elements(g)
        d == {i \in 1..Smaller(Len(a), Len(b)) : a[i] # b[i]}
    IN  d # {} /\ StrLess(a[MinOf(d)], b[MinOf(d)])

\* A file of the list gets a section: it can be classified and is text.
GetsSection(f) ==
    /\ ~IsBinaryFile(fs, cwd, FullPath(f)).err
    /\ ~IsBinaryFile(fs, cwd, FullPath(f)).binary

SectionOf(f) == Section(FullPath(f), fs[FullPath(f)].content)

\* The document of a file list: the header, then the section of every file
\* that gets one, in list order.
DocumentOf(fileList) ==
    HeaderBytes(config)
        \o Concat([k \in 1..Len(SelectSeq(fileList, GetsSection)) |->
                      SectionOf(SelectSeq(fileList, GetsSection)[k])])

\* The run of the scenario: basedir=., include=src, excludeextension=json.
IsScenario ==
    /\ inputFile.exists
    /\ inputFile.text = ConfigText(<<Hi>>, <<Dot>>, <<N_src>>, <<>>, <<N_json>>, <<>>)
    /\ outputPath = P_out

\* C6: the list findFiles returns is the lists of the include entries one
\* after the other in configuration order; the files of a directory entry
\* are in walk order (the names of each directory sorted) and carry the
\* entry as prefix; generateOutput writes the sections of the files in list
\* order. In the scenario the sections are those of src/a.go and
\* src/sub/c.go, in this order.
C6_IncludeOrder ==
    /\ Found =>
          LET own == [j \in 1..Len(config.Includes) |-> Alone(config.Includes[j])]
          IN  /\ files = Concat(own)
              /\ \A j \in 1..Len(config.Includes) :
                    IsDirInclude(config.Includes[j]) =>
                        /\ \A k \in 1..(Len(own[j]) - 1) : WalkBefore(own[j][k], own[j][k + 1])
                        /\ \A k \in 1..Len(own[j]) :
                              \/ ProperPrefix(Elements(Clean(config.Includes[j])),
                                              Elements(own[j][k]))
                              \/ Clean(config.Includes[j]) = Dot
    /\ pc = "exit" /\ exitCode = 0 =>
          Document.exists /\ Document.content = DocumentOf(files)
    /\ IsScenario /\ pc = "exit" =>
          /\ files = <<Sl(N_src, N_a_go), Sl(Sl(N_src, N_sub), N_c_go)>>
          /\ exitCode = 0
          /\ Document.content =
                Bytes(Hi) \o <<NL, NL>>
                  \o Section(Sl(P_src, N_a_go), <<65>>)
                  \o Section(Sl(Sl(P_src, N_sub), N_c_go), <<67, 195, 169>>)

\* include=lib, then include=src: the files of lib in walk order (Z.JSON
\* before a.go, sub/x.bin before sub.go), then those of src, and the document
\* is written.
C6_Witness ==
    /\ pc = "exit"
    /\ exitCode = 0
    /\ config.Includes = <<N_lib, N_src>>
    /\ config.ExcludeFolders = <<>>
    /\ config.ExcludeExtensions = <<>>
    /\ config.ExcludeFiles = <<>>
    /\ files = <<Sl(N_lib, N_Z_JSON), Sl(N_lib, N_a_go), Sl(Sl(N_lib, N_sub), N_x_bin),
                 Sl(N_lib, N_sub_go), Sl(N_src, N_a_go), Sl(N_src, N_b_json),
                 Sl(Sl(N_src, N_sub), N_c_go)>>
    /\ fs[P_out].content # <<>>

\* C7 as stated: a run whose configuration is valid and whose output file
\* can be created exits with code 0, whatever files or directories cannot be
\* accessed or read on the way.
C7_OnlyStructuralErrorsAreFatal ==
    pc = "exit" /\ exitCode # 0 =>
        \/ calls = <<"readInputFile">>
        \/ calls = <<"readInputFile", "validate">>
        \/ err = "error creating output file"

\* readInputFile has returned and main has not gone further.
JustParsed == calls = <<"readInputFile">>

\* Where the lines of a text start, and where the line that starts at i
\* ends, its line feed not counted.
LineStarts(text) == {i \in 1..Len(text) : i = 1 \/ text[i - 1] = "\n"}
LineEnd(text, i) ==
    IF \E j \in i..Len(text) : text[j] = "\n"
    THEN MinOf({j \in i..Len(text) : text[j] = "\n"}) - 1
    ELSE Len(text)
BytesIn(text, i, j) == (j - i + 1) + Cardinality({k \in i..j : text[k] \in {"nel", "nbsp"}})

\* The text holds a line of MaxScanTokenSize bytes or more.
HasOverlongLine(text) ==
    \E i \in LineStarts(text) : BytesIn(text, i, LineEnd(text, i)) >= MaxScanTokenSize

\* The lines of the input file, the positions of its "---" lines.
InputLines == ScanLines(inputFile.text)
SeparatorLines == {i \in 1..Len(InputLines) : InputLines[i] = HeaderSep}
HeaderLines == SubSeq(InputLines, 1, MinOf(SeparatorLines) - 1)
DirectiveLines == SubSeq(InputLines, MinOf(SeparatorLines) + 1, Len(InputLines))

HasEquals(line) == \E i \in 1..Len(line) : line[i] = "="
FirstEquals(line) ==
    CHOOSE i \in 1..Len(line) : line[i] = "=" /\ \A j \in 1..(i - 1) : line[j] # "="
KeyOf(line) == ToLower(TrimSpace(SubSeq(line, 1, FirstEquals(line) - 1)))
ValueOf(line) == TrimSpace(SubSeq(line, FirstEquals(line) + 1, Len(line)))

\* The values the directive lines give key, in file order.
ValuesFor(key) ==
    LET Gives(line) == HasEquals(line) /\ KeyOf(line) = key
        given == SelectSeq(DirectiveLines, Gives)
    IN  [k \in 1..Len(given) |-> ValueOf(given[k])]

LastOrNone(values) == IF values = <<>> THEN <<>> ELSE values[Len(values)]

StoredPattern(v) ==
    IF Len(v) >= 2 /\ v[1] = "*" /\ v[2] = "." THEN v ELSE <<"*", ".">> \o v

\* The configuration the text of the input file describes.
ConfigRead ==
    IF SeparatorLines = {} THEN EmptyConfig
    ELSE [HeaderText |-> StrJoin(HeaderLines, <<"\n">>),
          BaseDir |-> LastOrNone(ValuesFor(K_basedir)),
          Includes |-> ValuesFor(K_include),
          ExcludeFolders |-> ValuesFor(K_excludefolder),
          ExcludeExtensions |->
              [k \in 1..Len(ValuesFor(K_excludeextension)) |->
                  StoredPattern(ValuesFor(K_excludeextension)[k])],
          ExcludeFiles |-> ValuesFor(K_excludefile)]

\* C10 (as amended): readInputFile fails exactly when the input file cannot
\* be opened or holds a line of 65536 bytes or more. Otherwise the lines
\* before the first "---" line are the header text, joined with line feeds,
\* and give no directive; of the lines after it, those with "=" whose key,
\* trimmed and lower-cased, is a directive key give their value (what
\* follows the first "=", trimmed) to it, in file order, the last basedir
\* winning; every other line changes nothing; a text without "---" line
\* gives an empty header text and no directives.
C10_ReadInputFile ==
    JustParsed =>
        /\ err # "" <=> ~inputFile.exists \/ HasOverlongLine(inputFile.text)
        /\ err # "" => pc = "exit" /\ exitCode = 1
        /\ ~inputFile.exists => err = "error opening file"
        /\ err = "" => pc = "parsed" /\ config = ConfigRead

\* A text of three lines: the separator, a basedir line with a second "=",
\* an include line with blanks and capitals.
C10_Witness ==
    /\ JustParsed
    /\ pc = "parsed"
    /\ InputLines = <<HeaderSep,
                      <<"B", "a", "s", "e", "D", "i", "r", "=", ".", "=", "x">>,
                      <<" ", "I", "n", "c", "l", "u", "d", "e", " ", "=", " ">> \o N_lib \o <<" ">>>>
    /\ config.BaseDir = <<".", "=", "x">>
    /\ config.Includes = <<N_lib>>
    /\ config.HeaderText = <<>>

\* C10 as stated: parsing never fails because of the content of a line.
C10_ParsingNeverFails == JustParsed /\ inputFile.exists => err = ""

\* The extension of a file: the text from the last dot of its name.
NameOf(f) == LastElement(Clean(f))
DotsOf(name) == {i \in 1..Len(name) : name[i] = "."}
ExtensionOf(f) ==
    IF DotsOf(NameOf(f)) = {} THEN <<>>
    ELSE SubSeq(NameOf(f), MaxOf(DotsOf(NameOf(f))), Len(NameOf(f)))

ExcludedByExtension(f) ==
    /\ ExtensionOf(f) # <<>>
    /\ \E k \in 1..Len(config.ExcludeExtensions) :
          Tail(config.ExcludeExtensions[k]) = ExtensionOf(f)
KeptByExtension(f) == ~ExcludedByExtension(f)

WithoutExtensionRules == FindFiles(fs, cwd, [config EXCEPT !.ExcludeExtensions = <<>>]).files

InList(f, list) == \E k \in 1..Len(list) : list[k] = f

\* C5: every excludeextension value v is stored as "*." and v, unless it
\* starts with "*."; the extension rules remove from the result exactly the
\* files whose extension (the text from the last dot of the name) is a stored
\* pattern without its "*", compared character by character: a.JSON is kept
\* under excludeextension=json, a file without extension always.
C5_ExtensionExclusion ==
    LET values == ValuesFor(K_excludeextension)
        all == WithoutExtensionRules
    IN  /\ pc \in {"parsed", "validated", "found"} =>
              config.ExcludeExtensions = [k \in 1..Len(values) |-> StoredPattern(values[k])]
        /\ Found =>
              /\ files = SelectSeq(all, KeptByExtension)
              /\ \A k \in 1..Len(all) : ExtensionOf(all[k]) = <<>> => InList(all[k], files)
              /\ values = <<N_json>> =>
                    /\ InList(Sl(N_x, N_a_JSON), all) => InList(Sl(N_x, N_a_JSON), files)
                    /\ ~InList(Sl(N_x, N_a_json), files)

\* excludeextension=json over the walk of x: a.json, a.b.json and .json go,
\* a., a.JSON, a.go, json and nodot stay.
C5_Witness ==
    /\ Found
    /\ ValuesFor(K_excludeextension) = <<N_json>>
    /\ config.ExcludeExtensions = <<<<"*", ".">> \o N_json>>
    /\ config.Includes = <<N_x>>
    /\ files = <<Sl(N_x, N_a_dot), Sl(N_x, N_a_JSON), Sl(N_x, N_a_go), Sl(N_x, N_json),
                 Sl(N_x, N_nodot)>>

\* The one file of the content runs, its content, its first block.
P_f == Sl(P_w, N_f)
Content == fs[P_f].content
FirstBlock == SubSeq(Content, 1, Smaller(Len(Content), SniffSize))

\* The run has ended and the file was in the list.
Sniffed == pc = "exit" /\ files = <<N_f>> /\ P_f \in DOMAIN fs

HasSection == Document.content = Section(P_f, Content)
SkippedAsBinary ==
    /\ Document.content = <<>>
    /\ warnings = <<[kind |-> "binary", path |-> N_f]>>

\* Text of characters of one or two bytes, no 0x00.
PlainText(b) ==
    \A i \in 1..Len(b) :
        \/ b[i] \in 1..127
        \/ b[i] \in 194..223 /\ i < Len(b) /\ b[i + 1] \in 128..191
        \/ b[i] \in 128..191 /\ i > 1 /\ b[i - 1] \in 194..223

\* C8: binary detection looks at the first 512 bytes only. A 0x00 among them
\* makes the file binary, and it gets no section; a file of fewer than 512
\* bytes, all ASCII and none 0x00, the empty file included, is not binary;
\* a first block that ends on the first byte of a multi-byte character is
\* binary whatever follows; when the first 512 bytes are text, whatever
\* follows them (0x00, an invalid sequence) does not make the file binary.
C8_BinaryDetection ==
    Sniffed =>
        /\ exitCode = 0
        /\ HasSection \/ SkippedAsBinary
        /\ (\E i \in 1..Len(FirstBlock) : FirstBlock[i] = 0) => SkippedAsBinary
        /\ Len(Content) < SniffSize /\ (\A i \in 1..Len(Content) : Content[i] \in 1..127)
              => HasSection
        /\ Len(Content) >= SniffSize /\ Content[SniffSize] >= 192 => SkippedAsBinary
        /\ PlainText(FirstBlock) => HasSection

\* 511 bytes "a", then a character of two bytes: the whole file is valid
\* UTF-8, the first block ends inside the character, the file is skipped.
C8_WitnessSplit ==
    /\ Sniffed
    /\ Content = Pad(SniffSize - 1) \o <<195, 169>>
    /\ SkippedAsBinary

\* C9 as stated: a second run with the same flags on the tree the first run
\* left gives the same bytes in the output file, wherever the output path
\* lies.
C9_SecondRunSameOutput ==
    pc = "exit" /\ run = 2 /\ exitCode = 0 /\ prev.ran /\ prev.exitCode = 0 =>
        Document.exists /\ prev.exists /\ Document.content = prev.content
====
